---------------------------- MODULE Spec2Model ----------------------------
(* A state-machine model of fpl_dashboard.py, a Streamlit script.           *)
(*                                                                          *)
(* The script is re-executed from top to bottom on every interaction of a   *)
(* browser session.  st.session_state (variable ss) survives the re-runs of *)
(* a session, the memo of @st.cache_data (variable cache) survives for the  *)
(* whole process, a button's on_click callback runs before the re-run and   *)
(* reads the module globals of the run that registered it (variable g).     *)
(* One action of the model is one interaction cycle: the callback, if any,  *)
(* followed by the whole script.                                            *)
EXTENDS Integers, Sequences, FiniteSets

VARIABLES
    upstream,   \* which bootstrap payload the remote API serves now
    net,        \* TRUE when an HTTP GET succeeds
    cache,      \* memo of fetch_fpl_data kept by st.cache_data
    ss,         \* st.session_state: a dictionary, key -> value
    g,          \* module globals left by the last script run (read by callbacks)
    w,          \* values of the widgets on screen
    rendered,   \* the widgets the last cycle put on screen
    view,       \* what the page dispatch of the last cycle rendered
    exc,        \* the unhandled exception that ended the last cycle, or "none"
    step        \* the last step taken: its kind and what was clicked or edited

vars == <<upstream, net, cache, ss, g, w, rendered, view, exc, step>>

---------------------------------------------------------------------------
(* Bounds of the model.                                                     *)

NumPlayers == 15    \* elements per bootstrap payload
MaxQueryLen == 1    \* longest text typed in a search box
PaletteLen == 2     \* colours per named palette

(* Program constants.                                                       *)

TopN == 11          \* head(11) of the Best Players view
SliderMin == 5      \* st.slider(min_value=5, ...)
SliderValue == 10   \* st.slider(..., value=10)
MinutesPerHour == 60
PricePerUnit == 10

---------------------------------------------------------------------------
(* Dictionaries.                                                            *)

EmptyDict == <<>>

Put(d, k, v) == [c \in DOMAIN d \cup {k} |-> IF c = k THEN v ELSE d[c]]

Has(d, k) == k \in DOMAIN d

(* Numbers.  A float column is a rational num/den; NaN is 0/0.  An upstream *)
(* text field such as "12.3" is [ok, s]: ok says whether the text parses,   *)
(* s is its value in tenths.                                                *)

NaN == [num |-> 0, den |-> 0]

IsNaN(x) == x.den = 0

IntNum(n) == [num |-> n, den |-> 1]

Txt(n) == [ok |-> TRUE, s |-> n]

BadTxt == [ok |-> FALSE, s |-> 0]

DivBy(x, k) == IF IsNaN(x) THEN NaN ELSE [num |-> x.num, den |-> x.den * k]

Add(a, b) ==
    IF a.den = b.den THEN [num |-> a.num + b.num, den |-> a.den]
    ELSE [num |-> a.num * b.den + b.num * a.den, den |-> a.den * b.den]

NumEq(a, b) == ~IsNaN(a) /\ ~IsNaN(b) /\ a.num * b.den = b.num * a.den

NumLess(a, b) == a.num * b.den < b.num * a.den

\* pd.to_numeric(column, errors='coerce') on one cell
to_numeric(x) ==
    IF "ok" \in DOMAIN x
    THEN (IF x.ok THEN [num |-> x.s, den |-> 10] ELSE NaN)
    ELSE x

---------------------------------------------------------------------------
(* Text.  A string is a sequence of one-character strings.                  *)

Low == <<"a", "b", "c">>
Cap == <<"A", "B", "C">>

Lower(c) ==
    CASE c = "A" -> "a"
      [] c = "B" -> "b"
      [] c = "C" -> "c"
      [] OTHER -> c

\* the characters a user types in a search box
QChars == {"b", "z", ".", "("}

RECURSIVE StringsUpTo(_)
StringsUpTo(n) ==
    IF n = 0 THEN {<<>>}
    ELSE LET shorter == StringsUpTo(n - 1)
         IN shorter \cup {Append(s, c) : s \in shorter, c \in QChars}

Queries == StringsUpTo(MaxQueryLen)

\* plain substring test, ignoring case
IsSubstringCI(q, s) ==
    \E off \in 0..(Len(s) - Len(q)) :
        \A i \in 1..Len(q) : Lower(q[i]) = Lower(s[off + i])

---------------------------------------------------------------------------
(* The remote API.  A bootstrap payload is a dictionary with the arrays     *)
(* elements, teams and element_types.  The model keeps the columns the      *)
(* views compute with; first_name, goals_scored, assists, yellow_cards,     *)
(* red_cards, form, bonus, event_points and expected_goals_conceded are     *)
(* only copied by the program and are left out.                             *)

Variants == {1, 2, 3}

PlayerName(i) ==
    <<Cap[(i % 3) + 1], Low[((i \div 3) % 3) + 1], Low[((i \div 9) % 3) + 1]>>

TeamName(t) == <<Cap[(t % 3) + 1], Low[((t \div 3) % 3) + 1]>>

\* variant 1: three teams, every player's team exists.  variant 2: the teams
\* array holds team 1 alone, so the players of teams 2 and 3 are orphans.
\* variant 3: four teams.
TeamIds(v) ==
    CASE v = 1 -> <<1, 2, 3>>
      [] v = 2 -> <<1>>
      [] OTHER -> <<1, 2, 3, 4>>

\* variant 1: a goalkeeper, a defender, a manager, the rest forwards.
\* variant 2: the forwards are among the orphans.  variant 3: types 2..5
\* in turn.
ElementType(v, i) ==
    CASE v = 1 -> (IF i <= 2 THEN i ELSE IF i = 3 THEN 5 ELSE 4)
      [] v = 2 -> (IF i % 3 = 0 THEN (i % 2) + 1 ELSE 4)
      [] OTHER -> (i % 4) + 2

\* variant 3 lists no label for type 5
TypeLabels(v) ==
    LET all == << [id |-> 1, singular_name |-> "Goalkeeper"],
                  [id |-> 2, singular_name |-> "Defender"],
                  [id |-> 3, singular_name |-> "Midfielder"],
                  [id |-> 4, singular_name |-> "Forward"],
                  [id |-> 5, singular_name |-> "Manager"] >>
    IN IF v = 3 THEN SubSeq(all, 1, 4) ELSE all

Element(v, i) ==
    [ second_name         |-> PlayerName(i),
      team                |-> IF v = 3 THEN (i % 4) + 1 ELSE (i % 3) + 1,
      total_points        |-> i * v,
      clean_sheets        |-> i % 4,
      now_cost            |-> 40 + i + v,
      minutes             |-> 90 * i,
      selected_by_percent |-> IF v = 2 /\ i = 1 THEN BadTxt ELSE Txt(i),
      influence           |-> Txt(2 * i),
      creativity          |-> Txt(5),
      threat              |-> Txt(IF i = 4 THEN 43 ELSE 40),
      expected_goals      |-> Txt(i % 2),
      expected_assists    |-> Txt(1),
      saves               |-> IF ElementType(v, i) = 1 THEN 10 + i ELSE 0,
      element_type        |-> ElementType(v, i) ]

Bootstrap ==
    [ v \in Variants |->
        [ elements      |-> [i \in 1..NumPlayers |-> Element(v, i)],
          teams         |-> [k \in 1..Len(TeamIds(v)) |->
                                [ id   |-> TeamIds(v)[k],
                                  name |-> TeamName(TeamIds(v)[k]) ]],
          element_types |-> TypeLabels(v) ] ]

\* response.json() of a successful GET
Payload(v) == Bootstrap[v]

---------------------------------------------------------------------------
(* fetch_fpl_data, memoized by st.cache_data(ttl=3600).  A call within the  *)
(* time-to-live returns the memo; otherwise the body runs, and what it      *)
(* returns, the empty dictionary of the except branch included, is memoized.*)

NoCache == [valid |-> FALSE, value |-> EmptyDict]

fetch_fpl_data(c, up, nt) ==
    IF c.valid
    THEN [data |-> c.value, cache |-> c]
    ELSE LET data == IF nt THEN Payload(up) ELSE EmptyDict
         IN [data |-> data, cache |-> [valid |-> TRUE, value |-> data]]

---------------------------------------------------------------------------
(* prepare_data                                                             *)

\* players.merge(teams[['id','name']], left_on='team', right_on='id'),
\* drop id and team, rename name to team: an inner join in the order of the
\* left rows, one output row per matching team row.
\* a merge that keeps the rows without a team (how='left')
RECURSIVE MergeTeamsLeft(_, _)
MergeTeamsLeft(left, teams) ==
    IF left = <<>> THEN <<>>
    ELSE LET e == Head(left)
             hits == SelectSeq(teams, LAMBDA t : t.id = e.team)
         IN (IF hits = <<>> THEN << [e EXCEPT !.team = <<>>] >>
             ELSE [k \in 1..Len(hits) |-> [e EXCEPT !.team = hits[k].name]])
            \o MergeTeamsLeft(Tail(left), teams)

RECURSIVE MergeTeams(_, _)
MergeTeams(left, teams) ==
    IF left = <<>> THEN <<>>
    ELSE LET e == Head(left)
             hits == SelectSeq(teams, LAMBDA t : t.id = e.team)
         IN [k \in 1..Len(hits) |-> [e EXCEPT !.team = hits[k].name]]
            \o MergeTeams(Tail(left), teams)

\* dict(zip(element_types['id'], element_types['singular_name'])), then
\* players['element_type'].map(...): an unlisted type maps to missing
NoPosition == "nan"

PositionOf(types, ty) ==
    LET hits == {k \in 1..Len(types) : types[k].id = ty}
    IN IF hits = {} THEN NoPosition
       ELSE types[CHOOSE k \in hits : \A j \in hits : j <= k].singular_name

\* rename now_cost -> Price, minutes -> Hours, selected_by_percent ->
\* Ownership; Hours / 60, Price / 10, Ownership to numeric; position added
ConvertRow(r, types) ==
    [ second_name      |-> r.second_name,
      team             |-> r.team,
      total_points     |-> r.total_points,
      clean_sheets     |-> r.clean_sheets,
      Price            |-> DivBy(IntNum(r.now_cost), PricePerUnit),
      Hours            |-> DivBy(IntNum(r.minutes), MinutesPerHour),
      Ownership        |-> to_numeric(r.selected_by_percent),
      influence        |-> r.influence,
      creativity       |-> r.creativity,
      threat           |-> r.threat,
      expected_goals   |-> r.expected_goals,
      expected_assists |-> r.expected_assists,
      saves            |-> r.saves,
      element_type     |-> r.element_type,
      position         |-> PositionOf(types, r.element_type) ]

prepare_data(data) ==
    IF ~({"elements", "teams", "element_types"} \subseteq DOMAIN data)
    THEN [exc |-> "KeyError", players |-> <<>>, teams |-> <<>>]
    ELSE LET joined == MergeTeams(data.elements, data.teams)
         IN [ exc     |-> "none",
              players |-> [k \in 1..Len(joined) |->
                              ConvertRow(joined[k], data.element_types)],
              teams   |-> data.teams ]

---------------------------------------------------------------------------
(* Palettes and get_team_colors                                             *)

PaletteNames ==
    <<"Plasma", "Viridis", "Cividis", "Inferno", "Magma", "Blues", "Greens",
      "Oranges", "Reds", "BuPu", "BuGn", "YlGn", "YlOrRd">>

\* color_palettes[name]: a list of colours, here <<name, k>>
Palette(name) == [k \in 1..PaletteLen |-> <<name, k>>]

\* Series.unique(): the distinct values in first-seen order
RECURSIVE Unique(_)
Unique(s) ==
    IF s = <<>> THEN <<>>
    ELSE LET init == Unique(SubSeq(s, 1, Len(s) - 1))
             last == s[Len(s)]
         IN IF \E k \in 1..Len(init) : init[k] = last THEN init
            ELSE Append(init, last)

Column(table, col) == [k \in 1..Len(table) |-> table[k][col]]

\* a get_team_colors that counts the teams from 1 (enumerate(..., 1))
get_team_colors_from_one(players, palette) ==
    LET names == Unique(Column(players, "team"))
    IN [t \in {names[k] : k \in 1..Len(names)} |->
           LET i == CHOOSE k \in 1..Len(names) : names[k] = t
           IN palette[(i % Len(palette)) + 1]]

\* {team: palette[i % len(palette)] for i, team in enumerate(unique teams)}
get_team_colors(players, palette) ==
    LET names == Unique(Column(players, "team"))
    IN [t \in {names[k] : k \in 1..Len(names)} |->
           LET i == (CHOOSE k \in 1..Len(names) : names[k] = t) - 1
           IN palette[(i % Len(palette)) + 1]]

---------------------------------------------------------------------------
(* Session state, navigation, refresh and the load block                    *)

Pages ==
    {"Home", "Compare Players", "Search for a Player", "Compare Teams",
     "Search for a Team", "Fixtures", "Best Players"}

Undefined == "undefined"

\* the four "if key not in st.session_state" blocks at the top of the script
InitSession(s) ==
    LET s1 == IF Has(s, "page") THEN s ELSE Put(s, "page", "Home")
        s2 == IF Has(s1, "comparison_players") THEN s1
              ELSE Put(s1, "comparison_players", <<>>)
        s3 == IF Has(s2, "search_team") THEN s2 ELSE Put(s2, "search_team", <<>>)
    IN IF Has(s3, "team_colors") THEN s3 ELSE Put(s3, "team_colors", EmptyDict)

\* a navigate_to that drops the click
navigate_to_ignored(s, page_name) == s

navigate_to(s, page_name) == Put(s, "page", page_name)

\* refresh_data, the on_click callback of the Refresh Data button.  gl is
\* the module namespace of the run that registered the callback: its
\* color_palette is what line 89 reads.
refresh_data(s, c, up, nt, gl) ==
    LET f == fetch_fpl_data(c, up, nt)
        s1 == Put(s, "fpl_data", f.data)
        p == prepare_data(f.data)
        s2 == Put(Put(s1, "players", p.players), "teams", p.teams)
    IN IF p.exc # "none" THEN [ss |-> s1, cache |-> f.cache, exc |-> p.exc]
       ELSE IF gl.color_palette = Undefined
       THEN [ss |-> s2, cache |-> f.cache, exc |-> "NameError"]
       ELSE [ ss    |-> Put(s2, "team_colors",
                            get_team_colors(s2.players, Palette(gl.color_palette))),
              cache |-> f.cache,
              exc   |-> "none" ]

\* the first branch of "Load and prepare data": no fpl_data in the session
LoadFirst(s, c, up, nt) ==
    LET f == fetch_fpl_data(c, up, nt)
        s1 == Put(s, "fpl_data", f.data)
        p == prepare_data(f.data)
        s2 == Put(Put(s1, "players", p.players), "teams", p.teams)
    IN IF p.exc # "none"
       THEN [ ss |-> s1, cache |-> f.cache, exc |-> p.exc,
              color_palette |-> Undefined, bound |-> FALSE ]
       ELSE [ ss |-> Put(s2, "team_colors",
                         get_team_colors(s2.players, Palette("Plasma"))),
              cache |-> f.cache, exc |-> "none",
              color_palette |-> "Plasma", bound |-> FALSE ]

\* an else branch that converts the units of the session's table again
LoadElseReconvert(s, c) ==
    IF ~Has(s, "players") \/ ~Has(s, "teams")
    THEN [ ss |-> s, cache |-> c, exc |-> "AttributeError",
           color_palette |-> Undefined, bound |-> FALSE ]
    ELSE LET again == [k \in 1..Len(s.players) |->
                          [s.players[k] EXCEPT
                              !.Price = DivBy(@, PricePerUnit),
                              !.Hours = DivBy(@, MinutesPerHour)]]
             s1 == Put(s, "players", again)
         IN [ ss |-> Put(s1, "team_colors",
                         get_team_colors(s1.players, Palette("Plasma"))),
              cache |-> c, exc |-> "none",
              color_palette |-> "Plasma", bound |-> TRUE ]

\* an else branch that keeps the mapping the session already holds
LoadElseKeepColors(s, c) ==
    IF ~Has(s, "players") \/ ~Has(s, "teams")
    THEN [ ss |-> s, cache |-> c, exc |-> "AttributeError",
           color_palette |-> Undefined, bound |-> FALSE ]
    ELSE [ ss |-> s, cache |-> c, exc |-> "none",
           color_palette |-> "Plasma", bound |-> TRUE ]

\* the else branch: the tables of the session are bound to the globals
\* players and teams, and the mapping is rebuilt from Plasma
LoadElse(s, c) ==
    IF ~Has(s, "players") \/ ~Has(s, "teams")
    THEN [ ss |-> s, cache |-> c, exc |-> "AttributeError",
           color_palette |-> Undefined, bound |-> FALSE ]
    ELSE [ ss |-> Put(s, "team_colors",
                      get_team_colors(s.players, Palette("Plasma"))),
           cache |-> c, exc |-> "none",
           color_palette |-> "Plasma", bound |-> TRUE ]

LoadBlock(s, c, up, nt) ==
    IF ~Has(s, "fpl_data") THEN LoadFirst(s, c, up, nt) ELSE LoadElse(s, c)

---------------------------------------------------------------------------
(* Widgets and views.  A view yields the set of its possible results        *)
(* [ss, color_palette, w, extra, view, exc]: extra are the widgets it put   *)
(* on screen, w their values (a widget that is not rendered loses its       *)
(* value).                                                                  *)

DefaultW ==
    [ palette |-> "Plasma", pquery |-> <<>>, tquery |-> <<>>,
      position |-> "", posopts |-> <<>> ]

NoView == [page |-> "none", kind |-> "none", rows |-> <<>>, msg |-> ""]

Shown(page, kind, rows, msg) ==
    [page |-> page, kind |-> kind, rows |-> rows, msg |-> msg]

Result(s, cp, wv, extra, v, e) ==
    [ss |-> s, color_palette |-> cp, w |-> wv, extra |-> extra, view |-> v, exc |-> e]

\* a view that reads the globals players or teams in a run that never bound them
Unbound(s, cp, page) ==
    { Result(s, cp, DefaultW, {}, Shown(page, "none", <<>>, ""), "NameError") }

\* st.slider(min_value, max_value, value) rejects a value outside the range
SliderAccepts(total_players) ==
    SliderMin <= SliderValue /\ SliderValue <= total_players

Home(s, wv) ==
    LET s1 == Put(s, "team_colors",
                  get_team_colors(s.players, Palette(wv.palette)))
        wh == [DefaultW EXCEPT !.palette = wv.palette]
        total_players == Len(s.players)
    IN IF SliderAccepts(total_players)
       THEN { Result(s1, wv.palette, wh, {"palette", "other"},
                     Shown("Home", "chart", <<>>, ""), "none") }
       ELSE { Result(s1, wv.palette, wh, {"palette"},
                     Shown("Home", "chart", <<>>, ""), "StreamlitAPIException") }

\* Compare Players and Compare Teams: select boxes and a bar chart
Compare(s, cp, page) ==
    { Result(s, cp, DefaultW, {"other"},
             Shown(page, IF s.players = <<>> THEN "blank" ELSE "chart", <<>>, ""),
             "none") }

\* Fixtures: a second GET, its RequestException caught and reported
Fixtures(s, cp, nt) ==
    IF nt
    THEN { Result(s, cp, DefaultW, {"other"},
                  Shown("Fixtures", "table", <<>>, ""), "none") }
    ELSE { Result(s, cp, DefaultW, {},
                  Shown("Fixtures", "error", <<>>, "Error fetching fixtures"), "none") }

\* Series.str.contains(pat, case=False, na=False): pat is a regular
\* expression.  "(" opens a group, and no ")" can be typed to close it.
RegexCompiles(pat) == \A i \in 1..Len(pat) : pat[i] # "("

\* "." matches any character, any other character itself, ignoring case
CharMatches(p, c) == p = "." \/ Lower(p) = Lower(c)

RegexSearch(pat, text) ==
    \E off \in 0..(Len(text) - Len(pat)) :
        \A i \in 1..Len(pat) : CharMatches(pat[i], text[off + i])

Search(s, cp, page, table, col, query, wv, key, notfound) ==
    IF query = <<>>
    THEN { Result(s, cp, wv, {key}, Shown(page, "blank", <<>>, ""), "none") }
    ELSE IF ~RegexCompiles(query)
    THEN { Result(s, cp, wv, {key}, Shown(page, "none", <<>>, ""), "re.error") }
    ELSE LET search_results ==
                 SelectSeq(table, LAMBDA r : RegexSearch(query, r[col]))
         IN IF search_results # <<>>
            THEN { Result(s, cp, wv, {key},
                          Shown(page, "table", search_results, ""), "none") }
            ELSE { Result(s, cp, wv, {key},
                          Shown(page, "message", <<>>, notfound), "none") }

SearchPlayer(s, cp, wv) ==
    Search(s, cp, "Search for a Player", s.players, "second_name", wv.pquery,
           [DefaultW EXCEPT !.pquery = wv.pquery], "pquery", "No players found.")

SearchTeam(s, cp, wv) ==
    Search(s, cp, "Search for a Team", s.teams, "name", wv.tquery,
           [DefaultW EXCEPT !.tquery = wv.tquery], "tquery", "No teams found.")

---------------------------------------------------------------------------
(* Best Players                                                             *)

metrics_by_position(position) ==
    CASE position = "Goalkeeper" -> <<"saves", "clean_sheets">>
      [] position = "Defender" ->
            <<"expected_goals", "expected_assists", "clean_sheets",
              "influence", "creativity", "threat">>
      [] position = "Midfielder" ->
            <<"expected_goals", "expected_assists", "influence",
              "creativity", "threat">>
      [] position = "Forward" ->
            <<"expected_goals", "expected_assists", "influence",
              "creativity", "threat">>
      [] OTHER -> <<>>

\* a metric cell after pd.to_numeric: saves and clean_sheets are integers
\* upstream, the others are text
MetricValue(r, metric) ==
    IF metric \in {"saves", "clean_sheets"} THEN IntNum(r[metric])
    ELSE to_numeric(r[metric])

\* DataFrame.sum(axis=1) of one row: missing values are skipped
RECURSIVE RowSum(_, _)
RowSum(r, metrics) ==
    IF metrics = <<>> THEN IntNum(0)
    ELSE LET rest == RowSum(r, SubSeq(metrics, 1, Len(metrics) - 1))
             x == MetricValue(r, metrics[Len(metrics)])
         IN IF IsNaN(x) THEN rest ELSE Add(rest, x)

WithScore(r, metrics) ==
    [c \in DOMAIN r \cup {"total_score"} |->
        IF c = "total_score" THEN RowSum(r, metrics) ELSE r[c]]

\* sort_values(by='total_score', ascending=False): the default sort is not
\* stable, so rows of equal score may come out in any order
RECURSIVE SortedOrders(_, _)
SortedOrders(rows, idx) ==
    IF idx = {} THEN {<<>>}
    ELSE LET top == {i \in idx : \A j \in idx :
                        ~NumLess(rows[i].total_score, rows[j].total_score)}
         IN UNION {{<<i>> \o t : t \in SortedOrders(rows, idx \ {i})} : i \in top}

HeadN(seq, n) == SubSeq(seq, 1, IF Len(seq) < n THEN Len(seq) ELSE n)

TopPlayers(players, position) ==
    LET filtered_players ==
            SelectSeq(players, LAMBDA r :
                position # NoPosition /\ r.position = position)
        selected_metrics == metrics_by_position(position)
        scored == [k \in 1..Len(filtered_players) |->
                      WithScore(filtered_players[k], selected_metrics)]
    IN { HeadN([k \in 1..Len(o) |-> scored[o[k]]], TopN) :
            o \in SortedOrders(scored, 1..Len(scored)) }

BestPlayers(s, cp, wv) ==
    LET options == Unique(Column(s.players, "position"))
    IN IF ~(\E k \in 1..Len(options) : options[k] = "Forward")
       THEN { Result(s, cp, DefaultW, {},
                     Shown("Best Players", "none", <<>>, ""), "ValueError") }
       ELSE LET position == IF wv.posopts = options THEN wv.position ELSE "Forward"
                wb == [DefaultW EXCEPT !.position = position, !.posopts = options]
            IN { Result(s, cp, wb, {"position"},
                        Shown("Best Players", "chart", top_11_players, position),
                        "none") :
                    top_11_players \in TopPlayers(s.players, position) }

---------------------------------------------------------------------------
(* One run of the script: session initialisation, the load block, the       *)
(* navigation buttons, then the view of the current page.  clicked is the   *)
(* navigation button that was pressed, or "none".  An exception ends the    *)
(* run where it is raised; what was rendered before it stays on screen.     *)

Dispatch(s, cp, bound, nt, wv) ==
    IF s.page = "Home" THEN Home(s, wv)
    ELSE IF ~bound THEN Unbound(s, cp, s.page)
    ELSE CASE s.page = "Compare Players" -> Compare(s, cp, s.page)
           [] s.page = "Search for a Player" -> SearchPlayer(s, cp, wv)
           [] s.page = "Compare Teams" -> Compare(s, cp, s.page)
           [] s.page = "Search for a Team" -> SearchTeam(s, cp, wv)
           [] s.page = "Fixtures" -> Fixtures(s, cp, nt)
           [] s.page = "Best Players" -> BestPlayers(s, cp, wv)

ScriptRun(s0, c0, up, nt, wv, clicked) ==
    LET ld == LoadBlock(InitSession(s0), c0, up, nt)
    IN IF ld.exc # "none"
       THEN { [ ss |-> ld.ss, cache |-> ld.cache,
                g |-> [color_palette |-> ld.color_palette],
                w |-> DefaultW, rendered |-> {"refresh"},
                view |-> NoView, exc |-> ld.exc ] }
       ELSE LET s1 == IF clicked = "none" THEN ld.ss
                      ELSE navigate_to(ld.ss, clicked)
            IN { [ ss |-> r.ss, cache |-> ld.cache,
                   g |-> [color_palette |-> r.color_palette],
                   w |-> r.w, rendered |-> {"refresh", "nav"} \cup r.extra,
                   view |-> r.view, exc |-> r.exc ] :
                    r \in Dispatch(s1, ld.color_palette, ld.bound, nt, wv) }

\* the state a cycle leaves
Did(kind, arg) == [kind |-> kind, arg |-> arg]

Leaves(o, kind, arg) ==
    /\ ss' = o.ss
    /\ cache' = o.cache
    /\ g' = o.g
    /\ w' = o.w
    /\ rendered' = o.rendered
    /\ view' = o.view
    /\ exc' = o.exc
    /\ step' = Did(kind, arg)
    /\ UNCHANGED <<upstream, net>>

---------------------------------------------------------------------------
(* The state machine                                                        *)

\* a browser opens the app: a fresh session runs the script once
Init ==
    /\ upstream \in Variants
    /\ net \in BOOLEAN
    /\ step = Did("load", "")
    /\ \E o \in ScriptRun(EmptyDict, NoCache, upstream, net, DefaultW, "none") :
          /\ ss = o.ss
          /\ cache = o.cache
          /\ g = o.g
          /\ w = o.w
          /\ rendered = o.rendered
          /\ view = o.view
          /\ exc = o.exc

\* the browser reloads the page: a new session, the same process-wide memo
Reload ==
    \E o \in ScriptRun(EmptyDict, cache, upstream, net, DefaultW, "none") :
        Leaves(o, "load", "")

\* Refresh Data: the callback refresh_data, then the script.  An exception
\* in the callback ends the cycle before the script runs.
RefreshClick ==
    /\ "refresh" \in rendered
    /\ LET r == refresh_data(ss, cache, upstream, net, g)
       IN IF r.exc # "none"
          THEN Leaves([ ss |-> r.ss, cache |-> r.cache, g |-> g, w |-> DefaultW,
                        rendered |-> {}, view |-> NoView, exc |-> r.exc ],
                      "refresh", "")
          ELSE \E o \in ScriptRun(r.ss, r.cache, upstream, net, w, "none") :
                   Leaves(o, "refresh", "")

\* one of the seven navigation buttons
NavClick ==
    /\ "nav" \in rendered
    /\ \E p \in Pages :
          \E o \in ScriptRun(ss, cache, upstream, net, w, p) : Leaves(o, "nav", p)

\* the palette select box of Home
SelectPalette ==
    /\ "palette" \in rendered
    /\ \E k \in 1..Len(PaletteNames) :
          /\ PaletteNames[k] # w.palette
          /\ \E o \in ScriptRun(ss, cache, upstream, net,
                                [w EXCEPT !.palette = PaletteNames[k]], "none") :
                Leaves(o, "widget", "palette")

\* the text input of Search for a Player
EnterPlayerQuery ==
    /\ "pquery" \in rendered
    /\ \E q \in Queries :
          /\ q # w.pquery
          /\ \E o \in ScriptRun(ss, cache, upstream, net,
                                [w EXCEPT !.pquery = q], "none") :
                Leaves(o, "widget", "pquery")

\* the text input of Search for a Team
EnterTeamQuery ==
    /\ "tquery" \in rendered
    /\ \E q \in Queries :
          /\ q # w.tquery
          /\ \E o \in ScriptRun(ss, cache, upstream, net,
                                [w EXCEPT !.tquery = q], "none") :
                Leaves(o, "widget", "tquery")

\* the position select box of Best Players
SelectPosition ==
    /\ "position" \in rendered
    /\ \E k \in 1..Len(w.posopts) :
          /\ w.posopts[k] # w.position
          /\ \E o \in ScriptRun(ss, cache, upstream, net,
                                [w EXCEPT !.position = w.posopts[k]], "none") :
                Leaves(o, "widget", "position")

\* any other widget of the page (sort key, slider, compared names, team
\* filter): the script runs again, the modelled values are as before
OtherWidget ==
    /\ "other" \in rendered
    /\ \E o \in ScriptRun(ss, cache, upstream, net, w, "none") :
          Leaves(o, "widget", "other")

\* Rerun in the app menu: the script runs again in the same session, with
\* the widgets as they are
Rerun ==
    \E o \in ScriptRun(ss, cache, upstream, net, w, "none") : Leaves(o, "rerun", "")

\* the remote API starts serving another payload
UpstreamChange ==
    /\ \E v \in Variants : v # upstream /\ upstream' = v
    /\ step' = Did("env", "")
    /\ UNCHANGED <<net, cache, ss, g, w, rendered, view, exc>>

\* the network goes down or comes back
NetChange ==
    /\ net' = ~net
    /\ step' = Did("env", "")
    /\ UNCHANGED <<upstream, cache, ss, g, w, rendered, view, exc>>

\* the time-to-live of the memo elapses
Expire ==
    /\ cache.valid
    /\ cache' = NoCache
    /\ step' = Did("env", "")
    /\ UNCHANGED <<upstream, net, ss, g, w, rendered, view, exc>>

Next ==
    \/ Reload
    \/ RefreshClick
    \/ NavClick
    \/ SelectPalette
    \/ EnterPlayerQuery
    \/ EnterTeamQuery
    \/ SelectPosition
    \/ OtherWidget
    \/ Rerun
    \/ UpstreamChange
    \/ NetChange
    \/ Expire

Spec == Init /\ [][Next]_vars

---------------------------------------------------------------------------
(* Properties                                                               *)

\* the tables of the session are the ones prepare_data builds from its raw data
TablesBuiltFrom(data) ==
    /\ Has(ss, "players") /\ Has(ss, "teams")
    /\ prepare_data(data).exc = "none"
    /\ ss.players = prepare_data(data).players
    /\ ss.teams = prepare_data(data).teams

\* C1: when the bootstrap fetch fails, fetch_fpl_data returns an empty
\* object and the cycle, and every later cycle of the session, completes
\* without an unhandled exception, the active view rendered from empty data.
C1_FetchFailureTolerated ==
    (Has(ss, "fpl_data") /\ ss.fpl_data = EmptyDict)
        => (exc = "none" /\ view.page = ss.page)

\* C2: a refresh invalidates the memoized fetch result: right after a
\* Refresh Data cycle that completed with the network up, the raw data and
\* the tables of the session are those of the payload the API serves now,
\* whether or not the time-to-live has elapsed.
C2_RefreshShowsUpstream ==
    (step.kind = "refresh" /\ net /\ exc = "none")
        => (ss.fpl_data = Payload(upstream) /\ TablesBuiltFrom(Payload(upstream)))

\* C3: the current page starts as Home and is always one of the seven
\* pages; it changes only in a cycle where a navigation button was clicked
\* (a reload starts a new session at Home), it is then that button's page
\* and the view rendered in that cycle is that page's; widget changes and
\* refreshes leave it as it is; and wherever the navigation buttons are on
\* screen, each page is one click away.
C3_PageInit == step.kind = "load" => ss.page = "Home"

C3_PageTyped == ss.page \in Pages

C3_PageStep ==
    /\ step'.kind = "nav" => (ss'.page = step'.arg /\ view'.page = step'.arg)
    /\ step'.kind \in {"refresh", "widget", "rerun", "env"} => ss'.page = ss.page
    /\ ss'.page # ss.page => step'.kind \in {"nav", "load"}

C3_OneClick ==
    "nav" \in rendered =>
        \A p \in Pages :
            \E o \in ScriptRun(ss, cache, upstream, net, w, p) :
                o.ss.page = p /\ o.view.page = p

\* C3, whole: the three state properties in every state, the step property
\* on every step
C3_ViewRouter ==
    /\ [](C3_PageInit /\ C3_PageTyped /\ C3_OneClick)
    /\ [][C3_PageStep]_vars

C3_Navigated ==
    /\ step = Did("nav", "Best Players")
    /\ ss.page = "Best Players"
    /\ view.page = "Best Players"
    /\ view.kind = "chart"

Rows(table) == 1..Len(table)

\* C4: every row of the players table carries the name of a teams row whose
\* id is the raw team id of that player, and a player whose team id matches
\* no team is absent from the table.
C4_JoinTotal ==
    (Has(ss, "players") /\ ss.fpl_data # EmptyDict) =>
        LET raw == ss.fpl_data.elements
        IN /\ \A k \in Rows(ss.players) :
                \E i \in Rows(raw), t \in Rows(ss.teams) :
                    /\ raw[i].second_name = ss.players[k].second_name
                    /\ ss.teams[t].id = raw[i].team
                    /\ ss.teams[t].name = ss.players[k].team
           /\ \A i \in Rows(raw) :
                (\A t \in Rows(ss.teams) : ss.teams[t].id # raw[i].team)
                    => \A k \in Rows(ss.players) :
                           ss.players[k].second_name # raw[i].second_name

C4_OrphansDropped ==
    /\ Has(ss, "players") /\ ss.fpl_data # EmptyDict
    /\ ss.players # <<>>
    /\ Len(ss.players) < Len(ss.fpl_data.elements)
    /\ \E i \in Rows(ss.fpl_data.elements) :
          \A t \in Rows(ss.teams) : ss.teams[t].id # ss.fpl_data.elements[i].team

\* the number of distinct values of col before the first occurrence of col[k]
FirstSeenRank(col, k) ==
    LET first == CHOOSE j \in 1..k :
                     col[j] = col[k] /\ \A i \in 1..(j - 1) : col[i] # col[k]
    IN Cardinality({col[j] : j \in 1..(first - 1)})

\* C5: the mapping get_team_colors builds sends the i-th distinct team name,
\* counted from 0 in first-seen order, to palette[i mod len(palette)], and
\* maps nothing else.
C5_CyclicColors ==
    (Has(ss, "players") /\ g.color_palette # Undefined) =>
        LET col == Column(ss.players, "team")
            pal == Palette(g.color_palette)
        IN /\ DOMAIN ss.team_colors = {col[k] : k \in Rows(col)}
           /\ \A k \in Rows(col) :
                ss.team_colors[col[k]]
                    = pal[(FirstSeenRank(col, k) % Len(pal)) + 1]

\* more teams than colours: the palette of Home wraps around
C5_Wrapped ==
    /\ view.page = "Home" /\ w.palette = "Blues" /\ g.color_palette = "Blues"
    /\ Cardinality(DOMAIN ss.team_colors) > PaletteLen
    /\ \E a, b \in DOMAIN ss.team_colors :
          a # b /\ ss.team_colors[a] = ss.team_colors[b]

\* C6: on the two search pages, a non-empty query that is no substring,
\* ignoring case, of any name gives the "not found" message and no exception.
C6_NoMatchNotFound ==
    /\ ( /\ "pquery" \in rendered /\ w.pquery # <<>>
         /\ \A k \in Rows(ss.players) :
               ~IsSubstringCI(w.pquery, ss.players[k].second_name) )
          => (exc = "none" /\ view.kind = "message" /\ view.msg = "No players found.")
    /\ ( /\ "tquery" \in rendered /\ w.tquery # <<>>
         /\ \A k \in Rows(ss.teams) : ~IsSubstringCI(w.tquery, ss.teams[k].name) )
          => (exc = "none" /\ view.kind = "message" /\ view.msg = "No teams found.")

\* C7: each row of the session's players table has Price equal to the raw
\* now_cost divided by 10 once, and Hours equal to the raw minutes divided
\* by 60 once, after any sequence of loads, refreshes, navigations and renders.
C7_ConvertedOnce ==
    (Has(ss, "players") /\ ss.fpl_data # EmptyDict) =>
        \A k \in Rows(ss.players) :
            \E i \in Rows(ss.fpl_data.elements) :
                LET e == ss.fpl_data.elements[i]
                    r == ss.players[k]
                IN /\ e.second_name = r.second_name
                   /\ r.Price.den # 0 /\ r.Hours.den # 0
                   /\ r.Price.num * 10 = e.now_cost * r.Price.den
                   /\ r.Hours.num * 60 = e.minutes * r.Hours.den

C7_Refreshed ==
    /\ step.kind = "refresh" /\ exc = "none"
    /\ view.page = "Search for a Player"
    /\ Has(ss, "players") /\ ss.players # <<>> /\ ss.fpl_data # EmptyDict

\* the total score the claim gives a row: the sum of its position's metrics
ClaimedScore(r) ==
    LET tenths == r.expected_goals.s + r.expected_assists.s + r.influence.s
                    + r.creativity.s + r.threat.s
    IN CASE r.position = "Goalkeeper" -> IntNum(r.saves + r.clean_sheets)
         [] r.position = "Defender" ->
                [num |-> tenths + 10 * r.clean_sheets, den |-> 10]
         [] r.position \in {"Midfielder", "Forward"} -> [num |-> tenths, den |-> 10]
         [] OTHER -> IntNum(0)

\* C8: on Best Players, for the position selected, the result holds only
\* players of that position, min(11, number of players of that position)
\* rows, each with the sum of the position's metrics as total score, and no
\* player of that position left out scores strictly higher than one kept.
C8_TopEleven ==
    (view.page = "Best Players" /\ view.kind = "chart") =>
        LET position == w.position
            rows == view.rows
            pool == {k \in Rows(ss.players) : ss.players[k].position = position}
            size == IF Cardinality(pool) < TopN THEN Cardinality(pool) ELSE TopN
        IN /\ \A j \in Rows(rows) : rows[j].position = position
           /\ Len(rows) = size
           /\ \A j \in Rows(rows) : NumEq(rows[j].total_score, ClaimedScore(rows[j]))
           /\ \A k \in pool :
                (\A j \in Rows(rows) :
                    rows[j].second_name # ss.players[k].second_name)
                  => \A j \in Rows(rows) :
                        ~NumLess(rows[j].total_score, ClaimedScore(ss.players[k]))

\* C9: a refresh swaps the data atomically: after a Refresh Data cycle of a
\* session that holds tables, the raw data, the players table and the teams
\* table of the session derive from one fetch result.
C9_AtomicSwap ==
    (step.kind = "refresh" /\ Has(ss, "players"))
        => (Has(ss, "fpl_data") /\ TablesBuiltFrom(ss.fpl_data))

\* C10: in a cycle that renders a page other than Home the mapping of the
\* session is the one built from Plasma, whatever palette Home had selected;
\* in a cycle that renders Home it is the one built from the selected palette.
C10_Mapping ==
    /\ view.page \notin {"none", "Home"} =>
          /\ ss.team_colors = get_team_colors(ss.players, Palette("Plasma"))
          /\ w.palette = "Plasma"
    /\ view.page = "Home" =>
          ss.team_colors = get_team_colors(ss.players, Palette(w.palette))

C10_LeavingHome ==
    (view.page = "Home" /\ w.palette # "Plasma" /\ step'.kind = "nav"
        /\ step'.arg # "Home")
      => /\ view'.page = step'.arg
         /\ ss'.team_colors = get_team_colors(ss'.players, Palette("Plasma"))
         /\ ss'.team_colors # ss.team_colors

\* C10, whole: the mapping property in every state, and every click that
\* leaves a Home with another palette selected lands on the Plasma mapping
C10_PaletteNotKept == []C10_Mapping /\ [][C10_LeavingHome]_vars

C10_ChartAfterHome ==
    /\ step = Did("nav", "Best Players")
    /\ view.page = "Best Players" /\ view.kind = "chart"
    /\ ss.team_colors # EmptyDict
    /\ ss.team_colors = get_team_colors(ss.players, Palette("Plasma"))

=============================================================================
